---- MODULE Spec2Model ----
(***************************************************************************)
(* VecCell<T>: a Vec<T> behind an UnsafeCell, mutated through &self.       *)
(* Every public method opens a view of the inner Vec (as_ref / as_mut),    *)
(* forwards to the Vec or slice method of the same name and lets the view  *)
(* go.  Iter is a cursor holding the cell and a usize position.            *)
(*                                                                         *)
(* A Vec is the record [buf, cap]; indices of the program are 0-based,     *)
(* sequences here are 1-based.  Option<T> and Vec<T> results are           *)
(* sequences: <<>> is None, <<x>> is Some(x).                              *)
(***************************************************************************)
EXTENDS Integers, Sequences, FiniteSets, TLC

\* Longest buffer of sized elements the model explores.
MaxLen == 3
\* Width of usize in the model (the program's is 16, 32 or 64).
UsizeBits == 3

USIZE_MAX == 2^UsizeBits - 1

Cells == {"a", "b"}
Addrs == {1, 2}

\* The element type T: u8 (two of its values) or the zero-sized ().
ElemsOf(z) == IF z THEN {0} ELSE {1, 2}

Min(x, y) == IF x <= y THEN x ELSE y
Max(x, y) == IF x >= y THEN x ELSE y

\* Sequences over S of length lo..hi.
SeqsOf(S, lo, hi) == UNION {[1..n -> S] : n \in lo..hi}

VARIABLES
    zst,              \* T is zero-sized
    overflow_checks,  \* the build panics on integer overflow (debug) or wraps
    store,            \* heap: address -> the Vec stored there
    inner,            \* cell -> address of its Vec (0: no such cell)
    out,              \* the Vec moved out by into_inner
    iter,             \* the cursor: [vc, idx]
    lastNext,         \* what the cursor's last next() did
    nextCalls,        \* next() calls made on the cursor (saturating)
    maxLenSeen,       \* longest the cursor's buffer has been since iter()
    logging,          \* which history is kept: "off", "call", "last", "order"
    last,             \* the last call: receiver, method, arguments, outcome
    expected,         \* the literal list and the values pushed since
    views,            \* views of the buffer that are live between steps
    ext,              \* an extend() whose iterator is still being advanced
    clash             \* two views were live together, one of them exclusive

vars == <<zst, overflow_checks, store, inner, out, iter, lastNext, nextCalls,
          maxLenSeen, logging, last, expected, views, ext, clash>>

----------------------------------------------------------------------------
(* The inner Vec's methods, as functions from a Vec to [vec, ret, panic].  *)

EmptyVec == [buf |-> <<>>, cap |-> 0]

Ok(v, r) == [vec |-> v, ret |-> r, panic |-> FALSE]
Panics(v) == [vec |-> v, ret |-> <<>>, panic |-> TRUE]

\* Vec::new(); a Vec of zero-sized elements reports capacity usize::MAX.
VecNew(z) == [buf |-> <<>>, cap |-> IF z THEN USIZE_MAX ELSE 0]

VecWithCapacity(z, n) == [buf |-> <<>>, cap |-> IF z THEN USIZE_MAX ELSE n]

\* The amortized growth of Vec for one-byte elements: at least double, at
\* least what is required, at least 8.
GrowAmortized(v, additional) ==
    Max(Max(v.cap * 2, Len(v.buf) + additional), 8)

\* Vec::reserve: nothing when the headroom is there; a Vec of zero-sized
\* elements cannot grow and panics with "capacity overflow".
VecReserve(z, v, additional) ==
    IF additional <= v.cap - Len(v.buf) THEN Ok(v, <<>>)
    ELSE IF z THEN Panics(v)
    ELSE Ok([v EXCEPT !.cap = GrowAmortized(v, additional)], <<>>)

VecReserveExact(z, v, additional) ==
    IF additional <= v.cap - Len(v.buf) THEN Ok(v, <<>>)
    ELSE IF z THEN Panics(v)
    ELSE Ok([v EXCEPT !.cap = Len(v.buf) + additional], <<>>)

\* Vec::try_reserve: Ok(()) is <<1>>, Err(CapacityOverflow) is <<0>>.
VecTryReserve(z, v, additional) ==
    IF additional <= v.cap - Len(v.buf) THEN Ok(v, <<1>>)
    ELSE IF z THEN Ok(v, <<0>>)
    ELSE Ok([v EXCEPT !.cap = GrowAmortized(v, additional)], <<1>>)

VecShrinkToIgnoresLen(z, v, min_capacity) ==
    IF v.cap > min_capacity /\ ~z
    THEN Ok([v EXCEPT !.cap = min_capacity], <<>>)
    ELSE Ok(v, <<>>)

\* Vec::shrink_to: never below the length, never growing.
VecShrinkTo(z, v, min_capacity) ==
    IF v.cap > min_capacity /\ ~z
    THEN Ok([v EXCEPT !.cap = Max(Len(v.buf), min_capacity)], <<>>)
    ELSE Ok(v, <<>>)

VecPushFront(z, v, value) ==
    Ok([v EXCEPT !.buf = <<value>> \o v.buf, !.cap = Max(v.cap, Len(v.buf) + 1)], <<>>)

VecPush(z, v, value) ==
    LET r == IF Len(v.buf) = v.cap THEN VecReserve(z, v, 1) ELSE Ok(v, <<>>)
    IN IF r.panic THEN r
       ELSE Ok([r.vec EXCEPT !.buf = Append(v.buf, value)], <<>>)

VecPop(v) ==
    IF v.buf = <<>> THEN Ok(v, <<>>)
    ELSE Ok([v EXCEPT !.buf = SubSeq(v.buf, 1, Len(v.buf) - 1)],
            <<v.buf[Len(v.buf)]>>)

VecInsertStrict(z, v, index, value) ==
    IF index >= Len(v.buf) THEN Panics(v)
    ELSE Ok([v EXCEPT !.buf = [i \in 1..(Len(v.buf) + 1) |->
                                  IF i <= index THEN v.buf[i]
                                  ELSE IF i = index + 1 THEN value
                                  ELSE v.buf[i - 1]]], <<>>)

\* Vec::insert: the bound is asserted first, then room is made, then the
\* tail is shifted right by one.
VecInsert(z, v, index, value) ==
    IF index > Len(v.buf) THEN Panics(v)
    ELSE LET r == IF Len(v.buf) = v.cap THEN VecReserve(z, v, 1) ELSE Ok(v, <<>>)
         IN IF r.panic THEN r
            ELSE Ok([r.vec EXCEPT !.buf = [i \in 1..(Len(v.buf) + 1) |->
                                              IF i <= index THEN v.buf[i]
                                              ELSE IF i = index + 1 THEN value
                                              ELSE v.buf[i - 1]]], <<>>)

VecRemoveKeepsSlot(v, index) ==
    IF index >= Len(v.buf) THEN Panics(v)
    ELSE Ok([v EXCEPT !.buf = SubSeq(v.buf, 1, Len(v.buf) - 1)], <<v.buf[index + 1]>>)

\* Vec::remove: the bound is asserted first, then the tail is shifted left.
VecRemove(v, index) ==
    IF index >= Len(v.buf) THEN Panics(v)
    ELSE Ok([v EXCEPT !.buf = [i \in 1..(Len(v.buf) - 1) |->
                                  IF i <= index THEN v.buf[i] ELSE v.buf[i + 1]]],
            <<v.buf[index + 1]>>)

VecSwapRemovePopsFirst(v, index) ==
    IF index >= Len(v.buf)
    THEN [vec |-> [v EXCEPT !.buf = SubSeq(v.buf, 1, Len(v.buf) - 1)],
          ret |-> <<>>, panic |-> TRUE]
    ELSE Ok([v EXCEPT !.buf = [i \in 1..(Len(v.buf) - 1) |->
                                  IF i = index + 1 THEN v.buf[Len(v.buf)] ELSE v.buf[i]]],
            <<v.buf[index + 1]>>)

\* Vec::swap_remove: the last element takes the removed one's place.
VecSwapRemove(v, index) ==
    IF index >= Len(v.buf) THEN Panics(v)
    ELSE Ok([v EXCEPT !.buf = [i \in 1..(Len(v.buf) - 1) |->
                                  IF i = index + 1 THEN v.buf[Len(v.buf)] ELSE v.buf[i]]],
            <<v.buf[index + 1]>>)

VecTruncate(v, len) ==
    IF len >= Len(v.buf) THEN Ok(v, <<>>)
    ELSE Ok([v EXCEPT !.buf = SubSeq(v.buf, 1, len)], <<>>)

\* Vec::resize: extend_with (reserve, then copies of value) or truncate.
VecResize(z, v, new_len, value) ==
    IF new_len > Len(v.buf)
    THEN LET r == VecReserve(z, v, new_len - Len(v.buf))
         IN IF r.panic THEN r
            ELSE Ok([r.vec EXCEPT !.buf = [i \in 1..new_len |->
                                              IF i <= Len(v.buf) THEN v.buf[i] ELSE value]],
                    <<>>)
    ELSE VecTruncate(v, new_len)

\* Vec::split_off: self keeps [0, at) and its capacity, [at, len) is returned.
VecSplitOff(v, at) ==
    IF at > Len(v.buf) THEN Panics(v)
    ELSE Ok([v EXCEPT !.buf = [i \in 1..at |-> v.buf[i]]],
            [i \in 1..(Len(v.buf) - at) |-> v.buf[at + i]])

\* Vec::drain(start..end): the range is checked against the length, the
\* Drain yields the elements of the range, and dropping it moves the tail
\* down to start.
DrainRange(v, start, end) == [i \in 1..(end - start) |-> v.buf[start + i]]

DrainDropKeepsOne(v, start, end) ==
    [v EXCEPT !.buf = [i \in 1..Min(Len(v.buf), Len(v.buf) - (end - start) + 1) |->
                          IF i <= start THEN v.buf[i] ELSE v.buf[i + Max(end - start - 1, 0)]]]

DrainDrop(v, start, end) ==
    [v EXCEPT !.buf = [i \in 1..(Len(v.buf) - (end - start)) |->
                          IF i <= start THEN v.buf[i] ELSE v.buf[i + (end - start)]]]

VecDrainCollect(v, start, end) ==
    IF start > end \/ end > Len(v.buf) THEN Panics(v)
    ELSE Ok(DrainDrop(v, start, end), DrainRange(v, start, end))

VecDrain(v, start, end) ==
    IF start > end \/ end > Len(v.buf) THEN Panics(v)
    ELSE Ok(DrainDrop(v, start, end), <<>>)

\* Vec::extend_from_slice: reserve(other.len()), then the clones in order.
VecExtendFromSlice(z, v, other) ==
    LET r == VecReserve(z, v, Len(other))
    IN IF r.panic THEN r ELSE Ok([r.vec EXCEPT !.buf = v.buf \o other], <<>>)

\* Vec::extend with an iterator of unknown length: element by element, room
\* made for one more whenever the buffer is full.
RECURSIVE VecExtend(_, _, _)
VecExtend(z, v, items) ==
    IF items = <<>> THEN Ok(v, <<>>)
    ELSE LET r == VecPush(z, v, Head(items))
         IN IF r.panic THEN r ELSE VecExtend(z, r.vec, Tail(items))

\* Vec::dedup: the first of every run of equal elements is kept.
RECURSIVE SliceDedup(_)
SliceDedup(s) ==
    IF Len(s) <= 1 THEN s
    ELSE LET d == SliceDedup(SubSeq(s, 1, Len(s) - 1))
         IN IF s[Len(s)] = s[Len(s) - 1] THEN d ELSE Append(d, s[Len(s)])

VecDedup(v) == Ok([v EXCEPT !.buf = SliceDedup(v.buf)], <<>>)

VecFill(v, value) == Ok([v EXCEPT !.buf = [i \in 1..Len(v.buf) |-> value]], <<>>)

VecReverse(v) ==
    Ok([v EXCEPT !.buf = [i \in 1..Len(v.buf) |-> v.buf[Len(v.buf) + 1 - i]]], <<>>)

\* slice::rotate_left asserts mid <= len.
VecRotateLeft(v, mid) ==
    IF mid > Len(v.buf) THEN Panics(v)
    ELSE Ok([v EXCEPT !.buf = [i \in 1..Len(v.buf) |->
                                  v.buf[((i - 1 + mid) % Len(v.buf)) + 1]]], <<>>)

VecRotateRight(v, k) ==
    IF k > Len(v.buf) THEN Panics(v) ELSE VecRotateLeft(v, Len(v.buf) - k)

\* slice::sort: stable, ascending (an insertion sort).
RECURSIVE InsertSorted(_, _)
InsertSorted(s, x) ==
    IF s = <<>> THEN <<x>>
    ELSE IF x < s[Len(s)] THEN Append(InsertSorted(SubSeq(s, 1, Len(s) - 1), x), s[Len(s)])
    ELSE Append(s, x)

RECURSIVE SliceSort(_)
SliceSort(s) ==
    IF s = <<>> THEN s
    ELSE InsertSorted(SliceSort(SubSeq(s, 1, Len(s) - 1)), s[Len(s)])

VecSort(v) == Ok([v EXCEPT !.buf = SliceSort(v.buf)], <<>>)

\* slice::swap indexes both places and panics when either is out of bounds.
VecSwap(v, a, b) ==
    IF a >= Len(v.buf) \/ b >= Len(v.buf) THEN Panics(v)
    ELSE Ok([v EXCEPT !.buf = [i \in 1..Len(v.buf) |->
                                  IF i = a + 1 THEN v.buf[b + 1]
                                  ELSE IF i = b + 1 THEN v.buf[a + 1]
                                  ELSE v.buf[i]]], <<>>)

\* slice::get(index).cloned()
VecGet(v, index) ==
    IF index < Len(v.buf) THEN Ok(v, <<v.buf[index + 1]>>) ELSE Ok(v, <<>>)

VecFirst(v) == IF v.buf = <<>> THEN Ok(v, <<>>) ELSE Ok(v, <<v.buf[1]>>)

VecLast(v) == IF v.buf = <<>> THEN Ok(v, <<>>) ELSE Ok(v, <<v.buf[Len(v.buf)]>>)

VecLen(v) == Ok(v, <<Len(v.buf)>>)

VecCapacity(v) == Ok(v, <<v.cap>>)

\* Vec::clone: a fresh buffer of exactly len elements, each cloned in order.
VecClone(v) == [buf |-> [i \in 1..Len(v.buf) |-> v.buf[i]], cap |-> Len(v.buf)]

----------------------------------------------------------------------------
(* The cell, its views and the history kept of its calls.                  *)

Live(c) == inner[c] # 0

\* unsafe { &*self.inner.get() }: the Vec the cell's UnsafeCell holds.
Vec(c) == store[inner[c]]

Buf(c) == Vec(c).buf

\* What the elements are, and whether one more sized element is explored.
Elems == ElemsOf(zst)

Room(c, n) == zst \/ Len(Buf(c)) + n <= MaxLen

Indices == 0..(MaxLen + 1)

Amounts == 0..2

Slices == SeqsOf(Elems, 0, 2)

\* Opening a view of kind k ("shared": as_ref, "mut": as_mut) while the
\* views in `views` are live breaks exclusivity when either is exclusive.
Conflict(k) == views # <<>> /\ (k = "mut" \/ \E i \in 1..Len(views) : views[i] = "mut")

NoPrior == [index |-> 0, value |-> 0, pre |-> <<>>, is |-> FALSE]

NoLog == [cell |-> "", op |-> "", args |-> <<>>, pre |-> EmptyVec,
          ret |-> <<>>, panic |-> FALSE, prior |-> NoPrior]

\* The record kept of a call; `prior` is the insert a remove directly follows.
Log(c, op, args, r) ==
    IF logging = "off" THEN NoLog
    ELSE IF logging = "call" THEN [NoLog EXCEPT !.cell = c, !.op = op, !.args = args]
    ELSE [cell |-> c, op |-> op, args |-> args, pre |-> Vec(c),
          ret |-> r.ret, panic |-> r.panic,
          prior |-> IF op = "remove" /\ last.op = "insert" /\ last.cell = c
                       /\ ~last.panic
                    THEN [index |-> last.args[1], value |-> last.args[2],
                          pre |-> last.pre.buf, is |-> TRUE]
                    ELSE NoPrior]

Track(op, args, r) ==
    IF logging = "order" /\ op = "push" /\ ~r.panic
    THEN [expected EXCEPT !.pushed = Append(@, args[1])]
    ELSE expected

\* A method of the cell: the view is opened, the Vec's method runs on it
\* (r is what it does to Vec(c)), and the view ends with the call.
Call(c, op, args, kind, r) ==
    /\ Live(c)
    /\ store' = [store EXCEPT ![inner[c]] = r.vec]
    /\ clash' = (clash \/ Conflict(kind))
    /\ ext' = IF ext.active /\ ext.cell = c THEN [ext EXCEPT !.reentered = TRUE] ELSE ext
    /\ last' = Log(c, op, args, r)
    /\ expected' = Track(op, args, r)
    /\ maxLenSeen' = IF iter.vc = c THEN Max(maxLenSeen, Len(r.vec.buf)) ELSE maxLenSeen
    /\ UNCHANGED <<zst, overflow_checks, inner, out, iter, lastNext, nextCalls,
                   logging, views>>

----------------------------------------------------------------------------
(* The public methods.                                                     *)

Get(c, index) == Call(c, "get", <<index>>, "shared", VecGet(Vec(c), index))

First(c) == Call(c, "first", <<>>, "shared", VecFirst(Vec(c)))

Last(c) == Call(c, "last", <<>>, "shared", VecLast(Vec(c)))

LenOf(c) == Call(c, "len", <<>>, "mut", VecLen(Vec(c)))

Capacity(c) == Call(c, "capacity", <<>>, "mut", VecCapacity(Vec(c)))

Push(c, value) ==
    /\ Live(c) /\ Room(c, 1)
    /\ Call(c, "push", <<value>>, "mut", VecPush(zst, Vec(c), value))

Pop(c) == Call(c, "pop", <<>>, "mut", VecPop(Vec(c)))

Insert(c, index, value) ==
    /\ Live(c) /\ Room(c, 1)
    /\ Call(c, "insert", <<index, value>>, "mut", VecInsert(zst, Vec(c), index, value))

Remove(c, index) == Call(c, "remove", <<index>>, "mut", VecRemove(Vec(c), index))

SwapRemove(c, index) ==
    Call(c, "swap_remove", <<index>>, "mut", VecSwapRemove(Vec(c), index))

Truncate(c, len) == Call(c, "truncate", <<len>>, "mut", VecTruncate(Vec(c), len))

Resize(c, new_len, value) ==
    /\ zst \/ new_len <= MaxLen
    /\ Call(c, "resize", <<new_len, value>>, "mut", VecResize(zst, Vec(c), new_len, value))

Reserve(c, additional) ==
    Call(c, "reserve", <<additional>>, "mut", VecReserve(zst, Vec(c), additional))

ReserveExact(c, additional) ==
    Call(c, "reserve_exact", <<additional>>, "mut",
         VecReserveExact(zst, Vec(c), additional))

TryReserve(c, additional) ==
    Call(c, "try_reserve", <<additional>>, "mut", VecTryReserve(zst, Vec(c), additional))

ShrinkTo(c, min_capacity) ==
    Call(c, "shrink_to", <<min_capacity>>, "mut", VecShrinkTo(zst, Vec(c), min_capacity))

SplitOff(c, at) == Call(c, "split_off", <<at>>, "mut", VecSplitOff(Vec(c), at))

DrainCollect(c, start, end) ==
    Call(c, "drain_collect", <<start, end>>, "mut", VecDrainCollect(Vec(c), start, end))

Drain(c, start, end) ==
    Call(c, "drain", <<start, end>>, "mut", VecDrain(Vec(c), start, end))

\* extend with an iterator that does not touch the cell.
Extend(c, items) ==
    /\ Live(c) /\ Room(c, Len(items))
    /\ Call(c, "extend", items, "mut", VecExtend(zst, Vec(c), items))

ExtendFromSlice(c, other) ==
    /\ Live(c) /\ Room(c, Len(other))
    /\ Call(c, "extend_from_slice", other, "mut", VecExtendFromSlice(zst, Vec(c), other))

Dedup(c) == Call(c, "dedup", <<>>, "mut", VecDedup(Vec(c)))

Fill(c, value) == Call(c, "fill", <<value>>, "mut", VecFill(Vec(c), value))

Reverse(c) == Call(c, "reverse", <<>>, "mut", VecReverse(Vec(c)))

RotateLeft(c, mid) == Call(c, "rotate_left", <<mid>>, "mut", VecRotateLeft(Vec(c), mid))

RotateRight(c, k) == Call(c, "rotate_right", <<k>>, "mut", VecRotateRight(Vec(c), k))

Sort(c) == Call(c, "sort", <<>>, "mut", VecSort(Vec(c)))

Swap(c, a, b) == Call(c, "swap", <<a, b>>, "mut", VecSwap(Vec(c), a, b))

\* The record of a call that makes or consumes a cell.
LogCell(c, op, args, v) ==
    IF logging = "off" THEN NoLog
    ELSE IF logging = "call" THEN [NoLog EXCEPT !.cell = c, !.op = op, !.args = args]
    ELSE [NoLog EXCEPT !.cell = c, !.op = op, !.args = args, !.pre = v]

CloneAliases(src, dst) ==
    /\ Live(src) /\ src # dst
    /\ ~ext.active /\ iter.vc # dst
    /\ inner' = [inner EXCEPT ![dst] = inner[src]]
    /\ last' = LogCell(dst, "clone", <<>>, Vec(src))
    /\ clash' = (clash \/ Conflict("shared"))
    /\ UNCHANGED <<zst, overflow_checks, store, out, iter, lastNext, nextCalls,
                   maxLenSeen, logging, expected, views, ext>>

\* dst = src.clone(): a new cell around a clone of the Vec, at an address
\* of its own (the Vec dst held before, if any, is dropped).
Clone(src, dst) ==
    /\ Live(src) /\ src # dst
    /\ ~ext.active /\ iter.vc # dst
    /\ LET a == CHOOSE x \in Addrs : x # inner[src]
       IN /\ store' = [store EXCEPT ![a] = VecClone(Vec(src))]
          /\ inner' = [inner EXCEPT ![dst] = a]
    /\ last' = LogCell(dst, "clone", <<>>, Vec(src))
    /\ clash' = (clash \/ Conflict("shared"))
    /\ UNCHANGED <<zst, overflow_checks, out, iter, lastNext, nextCalls,
                   maxLenSeen, logging, expected, views, ext>>

\* into_inner(self): the Vec is moved out and the cell is gone; a cell a
\* cursor borrows cannot be moved.
IntoInner(c) ==
    /\ Live(c) /\ iter.vc # c /\ ~ext.active
    /\ out' = Vec(c)
    /\ store' = [store EXCEPT ![inner[c]] = EmptyVec]
    /\ inner' = [inner EXCEPT ![c] = 0]
    /\ last' = LogCell(c, "into_inner", <<>>, Vec(c))
    /\ UNCHANGED <<zst, overflow_checks, iter, lastNext, nextCalls, maxLenSeen,
                   logging, expected, views, ext, clash>>

----------------------------------------------------------------------------
(* The cursor.                                                             *)

NoIter == [vc |-> "", idx |-> 0]

Fresh == [kind |-> "fresh", ret |-> <<>>, k |-> 0, at |-> <<>>, absentSeen |-> FALSE]

\* Iter::new(vc), through VecCell::iter; one cursor is followed.
IterNew(c) ==
    /\ Live(c) /\ iter = NoIter
    /\ iter' = [vc |-> c, idx |-> 0]
    /\ lastNext' = Fresh
    /\ nextCalls' = 0
    /\ maxLenSeen' = Len(Buf(c))
    /\ UNCHANGED <<zst, overflow_checks, store, inner, out, logging, last,
                   expected, views, ext, clash>>

\* What next() leaves in lastNext: it returned r.ret, or panicked.
NextResult(c, r, panicked) ==
    [kind |-> IF panicked THEN "panic" ELSE "ret",
     ret |-> IF panicked THEN <<>> ELSE r.ret,
     k |-> nextCalls,
     at |-> Buf(c),
     absentSeen |-> lastNext.absentSeen \/ (~panicked /\ r.ret = <<>>)]

\* Iter::next: item = self.vc.get(self.idx); self.idx += 1; item.  The
\* addition is on usize: at usize::MAX it panics where overflow is checked
\* (idx is not stored, item is not returned) and wraps to 0 where it is not.
IterNext ==
    /\ iter.vc # ""
    /\ LET r == VecGet(Vec(iter.vc), iter.idx)
           overflow == iter.idx + 1 > USIZE_MAX
       IN /\ iter' = IF overflow /\ overflow_checks THEN iter
                     ELSE [iter EXCEPT !.idx = (@ + 1) % (USIZE_MAX + 1)]
          /\ lastNext' = NextResult(iter.vc, r, overflow /\ overflow_checks)
          /\ last' = Log(iter.vc, "get", <<iter.idx>>, r)
    /\ nextCalls' = Min(nextCalls + 1, USIZE_MAX + 2)
    /\ clash' = (clash \/ Conflict("shared"))
    /\ UNCHANGED <<zst, overflow_checks, store, inner, out, maxLenSeen,
                   logging, expected, views, ext>>

----------------------------------------------------------------------------
(* extend(it) with an iterator whose next() is the caller's code: the      *)
(* exclusive view of as_mut() is live from the call to its return, and     *)
(* whatever the iterator does to the cell happens in between.              *)

NoExt == [active |-> FALSE, cell |-> "", len |-> 0, reentered |-> FALSE]

ExtendBegin(c) ==
    /\ Live(c) /\ ~ext.active
    /\ views' = Append(views, "mut")
    /\ clash' = (clash \/ Conflict("mut"))
    /\ ext' = [active |-> TRUE, cell |-> c, len |-> Len(Buf(c)), reentered |-> FALSE]
    /\ last' = Log(c, "extend", <<>>, Ok(Vec(c), <<>>))
    /\ UNCHANGED <<zst, overflow_checks, store, inner, out, iter, lastNext,
                   nextCalls, maxLenSeen, logging, expected>>

\* The Vecs the write of one more element can leave.  Untouched since the
\* last write, the element is pushed.  After a call on the cell made under
\* the live &mut Vec the behaviour is undefined: the length is read again
\* (the element lands after whatever is there now) or the length known
\* before is used (the element lands at that index, over or past what is
\* there now, a slot past the live length holding a stale element).
ExtendWrites(v, x) ==
    IF ~ext.reentered THEN {VecPush(zst, v, x).vec}
    ELSE {VecPush(zst, v, x).vec}
         \cup {[buf |-> [i \in 1..(ext.len + 1) |->
                            IF i > ext.len THEN x
                            ELSE IF i <= Len(v.buf) THEN v.buf[i] ELSE s],
                cap |-> Max(v.cap, ext.len + 1)] : s \in Elems}

\* The iterator's next() returned Some(x).
ExtendYield(x) ==
    /\ ext.active /\ Room(ext.cell, 1) /\ ext.len + 1 <= MaxLen
    /\ \E w \in ExtendWrites(Vec(ext.cell), x) :
          /\ store' = [store EXCEPT ![inner[ext.cell]] = w]
          /\ ext' = [ext EXCEPT !.len = Len(w.buf), !.reentered = FALSE]
    /\ UNCHANGED <<zst, overflow_checks, inner, out, iter, lastNext, nextCalls,
                   maxLenSeen, logging, last, expected, views, clash>>

\* The iterator's next() returned None: extend returns, its view ends.
ExtendEnd ==
    /\ ext.active
    /\ views' = SubSeq(views, 1, Len(views) - 1)
    /\ ext' = NoExt
    /\ UNCHANGED <<zst, overflow_checks, store, inner, out, iter, lastNext,
                   nextCalls, maxLenSeen, logging, last, expected, clash>>

----------------------------------------------------------------------------
(* Construction and the specifications.                                    *)

\* Cell "a" made around Vec v; `made` is the record of the constructor.
Constructed(z, oc, v, lg, made, lit) ==
    /\ zst = z
    /\ overflow_checks = oc
    /\ store = [x \in Addrs |-> IF x = 1 THEN v ELSE EmptyVec]
    /\ inner = [c \in Cells |-> IF c = "a" THEN 1 ELSE 0]
    /\ out = EmptyVec
    /\ iter = NoIter
    /\ lastNext = Fresh
    /\ nextCalls = 0
    /\ maxLenSeen = 0
    /\ logging = lg
    /\ last = made
    /\ expected = [lit |-> lit, pushed |-> <<>>]
    /\ views = <<>>
    /\ ext = NoExt
    /\ clash = FALSE

Made(op, args) == [NoLog EXCEPT !.cell = "a", !.op = op, !.args = args]

\* The Vecs handed to From<Vec<T>>: any Vec, its length within its capacity.
FromVecs == {[buf |-> s, cap |-> Len(s) + d] : s \in SeqsOf(ElemsOf(FALSE), 0, 2), d \in 0..1}

\* vec_cell![items]: new(), then extend_from_slice(&[items]).
VecCellMacro(z, items) == VecExtendFromSlice(z, VecNew(z), items).vec

\* VecCell::new(), VecCell::with_capacity(n) or VecCell::from(vec), of u8.
Init ==
    \/ Constructed(FALSE, FALSE, VecNew(FALSE), "last", Made("new", <<>>), <<>>)
    \/ \E n \in 0..(MaxLen + 1) :
          Constructed(FALSE, FALSE, VecWithCapacity(FALSE, n), "last",
                      Made("with_capacity", <<n>>), <<>>)
    \/ \E v \in FromVecs :
          Constructed(FALSE, FALSE, v, "last", Made("from", <<>>), <<>>)

Next ==
    \/ \E i \in Indices : Get("a", i)
    \/ First("a")
    \/ Last("a")
    \/ LenOf("a")
    \/ Capacity("a")
    \/ \E x \in Elems : Push("a", x)
    \/ Pop("a")
    \/ \E i \in Indices, x \in Elems : Insert("a", i, x)
    \/ \E i \in Indices : Remove("a", i)
    \/ \E i \in Indices : SwapRemove("a", i)
    \/ \E n \in Indices : Truncate("a", n)
    \/ \E n \in Indices, x \in Elems : Resize("a", n, x)
    \/ \E n \in Amounts : Reserve("a", n)
    \/ \E n \in Amounts : ReserveExact("a", n)
    \/ \E n \in Amounts : TryReserve("a", n)
    \/ \E n \in Amounts : ShrinkTo("a", n)
    \/ \E n \in Indices : SplitOff("a", n)
    \/ \E i \in Indices, j \in Indices : DrainCollect("a", i, j)
    \/ \E i \in Indices, j \in Indices : Drain("a", i, j)
    \/ \E s \in Slices : Extend("a", s)
    \/ \E s \in Slices : ExtendFromSlice("a", s)
    \/ Dedup("a")
    \/ \E x \in Elems : Fill("a", x)
    \/ Reverse("a")
    \/ \E n \in Indices : RotateLeft("a", n)
    \/ \E n \in Indices : RotateRight("a", n)
    \/ Sort("a")
    \/ \E i \in Indices, j \in Indices : Swap("a", i, j)

Spec == Init /\ [][Next]_vars

\* A cell that is empty or built by vec_cell!, then pushed to, read and
\* unwrapped.
Literals == SeqsOf(ElemsOf(FALSE), 1, 2)

InitPush ==
    \/ Constructed(FALSE, FALSE, VecNew(FALSE), "order", Made("new", <<>>), <<>>)
    \/ \E items \in Literals :
          Constructed(FALSE, FALSE, VecCellMacro(FALSE, items), "order",
                      Made("vec_cell", items), items)

NextPush ==
    \/ \E x \in Elems : Push("a", x)
    \/ \E i \in Indices : Get("a", i)
    \/ LenOf("a")
    \/ IntoInner("a")

SpecPush == InitPush /\ [][NextPush]_vars

\* One cursor over a cell of u8 or of (), in either build, with the cell
\* mutated between its steps.
InitIter ==
    \E z \in BOOLEAN, oc \in BOOLEAN :
        Constructed(z, oc, VecNew(z), "off", NoLog, <<>>)

NextIter ==
    \/ IterNew("a")
    \/ IterNext
    \/ \E x \in Elems : Push("a", x)
    \/ Pop("a")
    \/ \E i \in Indices, x \in Elems : Insert("a", i, x)
    \/ \E i \in Indices : Remove("a", i)
    \/ \E n \in Indices : Truncate("a", n)

SpecIter == InitIter /\ [][NextIter]_vars

\* The caller goes on calling next() on the cursor it holds.
FairSpecIter == SpecIter /\ WF_vars(IterNext)

\* Two cells, one cloned from the other, each mutated on its own.
InitClone ==
    Constructed(FALSE, FALSE, VecNew(FALSE), "call", Made("new", <<>>), <<>>)

NextClone ==
    \/ \E src \in Cells, dst \in Cells : Clone(src, dst)
    \/ \E c \in Cells, x \in Elems : Push(c, x)
    \/ \E c \in Cells : Pop(c)
    \/ \E c \in Cells, i \in Indices, x \in Elems : Insert(c, i, x)
    \/ \E c \in Cells, i \in Indices : Remove(c, i)
    \/ \E c \in Cells, x \in Elems : Fill(c, x)
    \/ \E c \in Cells : Sort(c)

SpecClone == InitClone /\ [][NextClone]_vars

\* Safe calls only, extend() among them with an iterator that is the
\* caller's code and may call the cell.
InitReentrant ==
    Constructed(FALSE, FALSE, VecNew(FALSE), "last", Made("new", <<>>), <<>>)

NextReentrant ==
    \/ ExtendBegin("a")
    \/ \E x \in Elems : ExtendYield(x)
    \/ ExtendEnd
    \/ \E x \in Elems : Push("a", x)
    \/ Pop("a")
    \/ \E i \in Indices : Get("a", i)

SpecReentrant == InitReentrant /\ [][NextReentrant]_vars

----------------------------------------------------------------------------
(* Properties.                                                             *)

\* C1: in single-threaded use of the safe methods, every view is released
\* before its call returns and no two views of a buffer are live together
\* unless all are shared, also when a method runs the caller's code (the
\* iterator of extend) while its view is held.
C1_ScopedExclusiveViews ==
    /\ ~clash
    /\ ~ext.active => views = <<>>

\* The element at 0-based index k of buffer b, or absent.
ElementAt(b, k) == IF k < Len(b) THEN <<b[k + 1]>> ELSE <<>>

\* C2: the k-th call of next() on a cursor (from 0, absent results counted)
\* returns what get(k) returns on the cell at that moment: the element now at
\* index k, or absent when k is not below the length.
C2_CursorReadsLiveIndex ==
    (lastNext.kind # "fresh" /\ lastNext.k <= USIZE_MAX + 1)
        => /\ lastNext.kind = "ret"
           /\ lastNext.ret = ElementAt(lastNext.at, lastNext.k)

\* C3: a cursor that is advanced again and again returns absent at some
\* point, whatever is done to the cell between its steps.
C3_CursorExhausts == (iter.vc # "") ~> lastNext.absentSeen

\* Below the overflow of the position both hold: a call numbered below
\* usize::MAX returns what get of that number returns, and while the buffer
\* has never been longer than L since iter(), the calls numbered L and
\* above return absent.
CursorBelowOverflow ==
    (lastNext.kind # "fresh" /\ lastNext.k < USIZE_MAX)
        => /\ lastNext.kind = "ret"
           /\ lastNext.ret = ElementAt(lastNext.at, lastNext.k)
           /\ lastNext.k >= maxLenSeen => lastNext.ret = <<>>
           /\ lastNext.ret # <<>> => lastNext.k < maxLenSeen

\* C4: a cell that is empty or built from a literal list, then pushed to,
\* holds the literal's elements followed by the pushed values in call
\* order: get(i) returns the i-th, len() their number, into_inner() all.
C4_OrderPreserved ==
    LET want == expected.lit \o expected.pushed
    IN /\ Live("a") =>
            /\ Buf("a") = want
            /\ VecLen(Vec("a")).ret = <<Len(want)>>
            /\ \A i \in 0..(Len(want) - 1) : VecGet(Vec("a"), i).ret = <<want[i + 1]>>
       /\ ~Live("a") => out.buf = want
       /\ last.op = "get" /\ last.args[1] < Len(want) => last.ret = <<want[last.args[1] + 1]>>
       /\ last.op = "len" => last.ret = <<Len(want)>>

C4_Witness ==
    /\ ~Live("a")
    /\ Len(expected.lit) >= 1
    /\ Len(expected.pushed) >= 2
    /\ out.buf = expected.lit \o expected.pushed

\* C5: get(i) with i >= length returns absent and does not fail; remove(i)
\* with i >= length fails; insert(i, v) with i > length fails; and
\* insert(length, v) succeeds and leaves the cell as push(v) would.
C5_BoundsOutcomes ==
    /\ (last.op = "get" /\ last.args[1] >= Len(last.pre.buf))
          => (last.ret = <<>> /\ ~last.panic /\ Vec("a") = last.pre)
    /\ (last.op = "remove" /\ last.args[1] >= Len(last.pre.buf)) => last.panic
    /\ (last.op = "insert" /\ last.args[1] > Len(last.pre.buf)) => last.panic
    /\ (last.op = "insert" /\ last.args[1] = Len(last.pre.buf))
          => /\ ~last.panic
             /\ Buf("a") = Append(last.pre.buf, last.args[2])
             /\ Vec("a") = VecPush(zst, last.pre, last.args[2]).vec

C5_Witness ==
    /\ last.op = "insert"
    /\ last.args[1] = Len(last.pre.buf)
    /\ Len(last.pre.buf) >= 2
    /\ Buf("a") = Append(last.pre.buf, last.args[2])

\* The argument of the last call is out of range for the buffer it met.
OutOfRange ==
    LET n == Len(last.pre.buf)
    IN \/ last.op = "insert" /\ last.args[1] > n
       \/ last.op \in {"remove", "swap_remove"} /\ last.args[1] >= n
       \/ last.op = "swap" /\ (last.args[1] >= n \/ last.args[2] >= n)
       \/ last.op = "split_off" /\ last.args[1] > n
       \/ last.op \in {"drain", "drain_collect"} /\ (last.args[1] > n \/ last.args[2] > n)

\* C6: insert, remove, swap_remove, swap, split_off, drain and
\* drain_collect called with an out-of-range argument fail, and the
\* buffer's elements and length are what they were before the call.
C6_NoPartialMutation ==
    OutOfRange => /\ last.panic
                  /\ Buf("a") = last.pre.buf
                  /\ Len(Buf("a")) = Len(last.pre.buf)

C6_Witness ==
    /\ last.op = "swap_remove"
    /\ OutOfRange
    /\ Len(last.pre.buf) >= 2
    /\ last.panic

\* C7: for a <= b <= length, drain_collect(a..b) returns s[a..b) in order
\* and leaves s[0..a) followed by s[b..length); drain(a..b) leaves the same
\* buffer and returns nothing.
C7_DrainComplete ==
    (/\ last.op \in {"drain", "drain_collect"}
     /\ last.args[1] <= last.args[2]
     /\ last.args[2] <= Len(last.pre.buf))
        => /\ ~last.panic
           /\ last.op = "drain_collect"
                 => last.ret = SubSeq(last.pre.buf, last.args[1] + 1, last.args[2])
           /\ last.op = "drain" => last.ret = <<>>
           /\ Buf("a") = SubSeq(last.pre.buf, 1, last.args[1])
                            \o SubSeq(last.pre.buf, last.args[2] + 1, Len(last.pre.buf))

C7_Witness ==
    /\ last.op = "drain_collect"
    /\ 0 < last.args[1]
    /\ last.args[1] < last.args[2]
    /\ last.args[2] < Len(last.pre.buf)
    /\ last.pre.buf[1] # last.pre.buf[Len(last.pre.buf)]
    /\ Len(last.ret) = last.args[2] - last.args[1]

\* C8: insert(i, v) with i <= length, directly followed by remove(i),
\* returns v and leaves the elements and the length as they were before
\* the insert.
C8_InsertRemoveInverse ==
    (last.op = "remove" /\ last.prior.is /\ last.args[1] = last.prior.index)
        => /\ ~last.panic
           /\ last.ret = <<last.prior.value>>
           /\ Buf("a") = last.prior.pre
           /\ Len(Buf("a")) = Len(last.prior.pre)

C8_Witness ==
    /\ last.op = "remove" /\ last.prior.is
    /\ last.args[1] = last.prior.index
    /\ 0 < last.prior.index
    /\ last.prior.index < Len(last.prior.pre)
    /\ Buf("a") = last.prior.pre

\* C9: b = a.clone() holds a's elements at the time of the clone, and from
\* then on a call on one cell leaves the other cell's contents alone.
C9_CloneCopies ==
    last.op = "clone" => \A c \in Cells : Live(c) /\ Buf(c) = Buf(last.cell)

C9_CloneIndependent ==
    /\ []C9_CloneCopies
    /\ [][\A c \in Cells :
            (Live(c) /\ last'.cell # c) => (inner'[c] # 0 /\ store'[inner'[c]].buf = Buf(c))]_vars

C9_Witness ==
    /\ Live("b")
    /\ last.op = "push" /\ last.cell = "a"
    /\ Len(Buf("b")) >= 1
    /\ Buf("a") = Append(Buf("b"), last.args[1])

\* C10: after every call len() <= capacity(), from new(), with_capacity(n)
\* and from(vec) alike; with_capacity(n) starts empty with capacity >= n.
C10_LenWithinCapacity ==
    /\ \A c \in Cells : Live(c) =>
          /\ Len(Buf(c)) <= Vec(c).cap
          /\ VecLen(Vec(c)).ret[1] <= VecCapacity(Vec(c)).ret[1]
    /\ last.op = "with_capacity" =>
          (Buf("a") = <<>> /\ Vec("a").cap >= last.args[1])

C10_Witness ==
    /\ last.op = "shrink_to"
    /\ last.pre.cap > Vec("a").cap
    /\ Vec("a").cap = Len(Buf("a"))
    /\ Len(Buf("a")) >= 2

====
